---------------------------- MODULE Spec2Model ----------------------------
(***************************************************************************)
(* The three tool functions of agent.py (wikipedia_tool, arxiv_tool,       *)
(* report_writer_tool) as a state machine.                                  *)
(*                                                                         *)
(* A Python str is a sequence of one-character strings.  The literal parts *)
(* of an f-string are single pieces of the sequence (no piece of the       *)
(* alphabet below spells one), except that every line break is the piece   *)
(* "\n" of its own, so that line breaks can be counted and translated.     *)
(*                                                                         *)
(* The external services (wikipedia.summary, arxiv.Client.results, the     *)
(* file system) are the environment: every outcome they can produce is a   *)
(* nondeterministic choice.                                                *)
(***************************************************************************)
EXTENDS Integers, Sequences, FiniteSets, TLC

\* ------------------------------------------------------------- bounds
\* Calls the agent runtime makes in one run.
MaxCalls == 2
\* Candidates a DisambiguationError can carry.
MaxOptions == 4

\* --------------------------------------------------- program constants
\* arxiv.Search(max_results=2)
max_results == 2
\* e.options[:3]
options_stop == 3

\* ------------------------------------------------------------ strings
Min(a, b) == IF a < b THEN a ELSE b

\* The pieces from which the inputs are drawn.
NL == "\n"
CR == "\r"
\* A lone surrogate: a code point the utf-8 codec refuses to encode.
SURROGATE == "\\ud800"

RECURSIVE Join(_, _)
\* sep.join(parts): the separator between consecutive parts only.
Join(sep, parts) ==
    IF parts = <<>> THEN <<>>
    ELSE IF Len(parts) = 1 THEN parts[1]
    ELSE parts[1] \o sep \o Join(sep, Tail(parts))

\* seq[:stop] for stop >= 0
SliceTo(seq, stop) == SubSeq(seq, 1, Min(stop, Len(seq)))

IsPrefix(s, t) == Len(s) <= Len(t) /\ SubSeq(t, 1, Len(s)) = s

\* s occurs in t as a contiguous run of pieces
IsInfix(s, t) ==
    \E i \in 0..(Len(t) - Len(s)) : SubSeq(t, i + 1, i + Len(s)) = s

\* Number of places where s occurs in t.
Occurrences(s, t) ==
    Cardinality({i \in 0..(Len(t) - Len(s)) : SubSeq(t, i + 1, i + Len(s)) = s})

\* Number of lines of a text: one more than its line breaks.
Lines(t) == 1 + Cardinality({i \in 1..Len(t) : t[i] = NL})

RECURSIVE StrEscape(_)
\* The body of repr(str): a line break is written as backslash, n.
StrEscape(s) ==
    IF s = <<>> THEN <<>>
    ELSE (IF Head(s) = NL THEN <<"\\", "n">> ELSE <<Head(s)>>) \o StrEscape(Tail(s))

\* repr(s) of a str with no quote in it
StrRepr(s) == <<"'">> \o StrEscape(s) \o <<"'">>

\* repr(list of str), which is what an f-string writes for {e.options[:3]}
ListRepr(l) ==
    <<"[">> \o Join(<<",", " ">>, [i \in 1..Len(l) |-> StrRepr(l[i])]) \o <<"]">>

\* --------------------------------------------------------- exceptions
\* The classes a call can raise, each with its base class.
Base(cls) ==
    CASE cls = "DisambiguationError" -> "WikipediaException"
      [] cls = "PageError" -> "WikipediaException"
      [] cls = "HTTPTimeoutError" -> "WikipediaException"
      [] cls = "WikipediaException" -> "Exception"
      [] cls = "HTTPError" -> "Exception"
      [] cls = "UnicodeEncodeError" -> "Exception"
      [] cls = "OSError" -> "Exception"
      [] cls = "Exception" -> "BaseException"
      [] OTHER -> "object"

RECURSIVE IsInstance(_, _)
\* isinstance(e, cls), which is how an except clause selects
IsInstance(e_cls, cls) ==
    IF e_cls = cls THEN TRUE
    ELSE IF e_cls \in {"object", "BaseException"} THEN FALSE
    ELSE IsInstance(Base(e_cls), cls)

\* An exception object: its class, str(e), and (DisambiguationError) options.
Exc(cls, msg, options) == [cls |-> cls, msg |-> msg, options |-> options]

\* How a call ends.
Returned(s) == [kind |-> "return", val |-> s]
Raised(e) == [kind |-> "raise", val |-> e]
NoResult == [kind |-> "none", val |-> <<>>]


\* ------------------------------------------------------ wikipedia_tool
\* What wikipedia.summary(query) can do: return a summary or raise.
Queries == {<<>>, <<"J", "a">>}
Summaries == {<<>>, <<"s">>}
Titles == {<<"x">>, <<"y">>}
ErrMsgs == {<<"e">>}

OptionLists == UNION {[1..n -> Titles] : n \in 0..MaxOptions}

WikiOutcomes ==
    {Returned(s) : s \in Summaries}
    \cup {Raised(Exc("DisambiguationError", <<"m">>, o)) : o \in OptionLists}
    \cup {Raised(Exc(c, m, <<>>)) :
            c \in {"PageError", "HTTPTimeoutError", "HTTPError"}, m \in ErrMsgs}

AmbiguousMsg(query, shown) ==
    <<"The query '">> \o query
      \o <<"' is ambiguous. Please be more specific. Options: ">> \o ListRepr(shown)

NotFoundMsg(query) ==
    <<"Sorry, I could not find a Wikipedia page for '">> \o query \o <<"'.">>

WikiErrorMsg(e) ==
    <<"An unexpected error occurred while searching Wikipedia: ">> \o e.msg

\* Faulty variants of wikipedia_tool_except: no generic clause; the base class caught first; no slice.
wikipedia_tool_except_no_generic(query, e) ==
    IF IsInstance(e.cls, "DisambiguationError")
      THEN Returned(AmbiguousMsg(query, SliceTo(e.options, options_stop)))
    ELSE IF IsInstance(e.cls, "PageError")
      THEN Returned(NotFoundMsg(query))
    ELSE Raised(e)

wikipedia_tool_except_base_first(query, e) ==
    IF IsInstance(e.cls, "WikipediaException")
      THEN Returned(WikiErrorMsg(e))
    ELSE IF IsInstance(e.cls, "PageError")
      THEN Returned(NotFoundMsg(query))
    ELSE IF IsInstance(e.cls, "Exception")
      THEN Returned(WikiErrorMsg(e))
    ELSE Raised(e)

wikipedia_tool_except_all_options(query, e) ==
    IF IsInstance(e.cls, "DisambiguationError")
      THEN Returned(AmbiguousMsg(query, e.options))
    ELSE IF IsInstance(e.cls, "PageError")
      THEN Returned(NotFoundMsg(query))
    ELSE IF IsInstance(e.cls, "Exception")
      THEN Returned(WikiErrorMsg(e))
    ELSE Raised(e)

\* The except clauses of wikipedia_tool, tried in the order written; an
\* exception no clause selects leaves the function.
wikipedia_tool_except(query, e) ==
    IF IsInstance(e.cls, "DisambiguationError")
      THEN Returned(AmbiguousMsg(query, SliceTo(e.options, options_stop)))
    ELSE IF IsInstance(e.cls, "PageError")
      THEN Returned(NotFoundMsg(query))
    ELSE IF IsInstance(e.cls, "Exception")
      THEN Returned(WikiErrorMsg(e))
    ELSE Raised(e)

\* wikipedia_tool(query) when wikipedia.summary(query) ends with `outcome`.
wikipedia_tool(query, outcome) ==
    IF outcome.kind = "return" THEN Returned(outcome.val)
    ELSE wikipedia_tool_except(query, outcome.val)

\* ---------------------------------------------------------- arxiv_tool
\* The records the paper index can yield.
Paper(t, s, i) == [title |-> t, summary |-> s, entry_id |-> i]
Papers ==
    {Paper(<<"t">>, <<"s">>, <<"u">>),
     Paper(<<"t">>, <<"s", NL, "s">>, <<"v">>),
     Paper(<<>>, <<"s">>, <<"w">>)}

ArxivExceptions == {Exc(c, m, <<>>) : c \in {"HTTPError"}, m \in ErrMsgs}

\* arxiv.Search(query=query, max_results=2, sort_by=Relevance)
Search(query) == [query |-> query, max_results |-> max_results]

\* f"Title: {result.title}\nSummary: {result.summary}\nURL: {result.entry_id}"
FormatResult(result) ==
    <<"Title: ">> \o result.title \o <<NL, "Summary: ">> \o result.summary
      \o <<NL, "URL: ">> \o result.entry_id

Separator == <<NL, "---", NL>>

NoPapersMsg(query) ==
    <<"No academic papers found", " on arXiv for the query '">> \o query \o <<"'.">>

ArxivErrorMsg(e) ==
    <<"An unexpected error occurred while searching arXiv: ">> \o e.msg

\* A faulty variant of arxiv_append: the new record put first.
arxiv_append_front(results, result) == <<FormatResult(result)>> \o results

\* results.append(f"Title: ...")
arxiv_append(results, result) == Append(results, FormatResult(result))

\* A faulty variant of arxiv_finish: no test for an empty list.
arxiv_finish_no_empty_test(query, results) == Returned(Join(Separator, results))

\* What arxiv_tool returns once the iteration has ended.
arxiv_finish(query, results) ==
    IF results = <<>> THEN Returned(NoPapersMsg(query))
    ELSE Returned(Join(Separator, results))

\* A faulty variant of arxiv_except: the records fetched so far are kept.
arxiv_except_keep_records(query, results, e) ==
    IF IsInstance(e.cls, "Exception")
      THEN Returned(Join(Separator, Append(results, ArxivErrorMsg(e))))
    ELSE Raised(e)

\* The except clause of arxiv_tool; `results` is dropped.
arxiv_except(query, results, e) ==
    IF IsInstance(e.cls, "Exception") THEN Returned(ArxivErrorMsg(e))
    ELSE Raised(e)

\* -------------------------------------------------- report_writer_tool
FileNames == {"r.txt", "s.txt"}
Contents == {<<"a">>, <<"b", NL, "c">>, <<SURROGATE>>}
\* os.linesep of the platforms Python runs on.
LineSeps == {<<NL>>, <<CR, NL>>}

NoFile == [exists |-> FALSE, data |-> <<>>]
File(data) == [exists |-> TRUE, data |-> data]

NoHandle == "closed"
NoExc == Exc("none", <<>>, <<>>)

RECURSIVE Translate(_, _)
\* A text file opened with newline=None writes each "\n" as os.linesep.
Translate(text, sep) ==
    IF text = <<>> THEN <<>>
    ELSE (IF Head(text) = NL THEN sep ELSE <<Head(text)>>) \o Translate(Tail(text), sep)

\* Whether the utf-8 codec can encode the text.
Encodable(text) == \A i \in 1..Len(text) : text[i] # SURROGATE

\* A faulty variant of WriteData: the line break forgotten.
WriteData_no_newline(content) == content

\* content + "\n"
WriteData(content) == content \o <<NL>>

\* A faulty variant of OpenAppend: mode 'w', which truncates.
OpenAppend_truncate(file) == File(<<>>)

\* open(filename, 'a'): the file is created when absent and kept otherwise.
OpenAppend(file) == IF file.exists THEN file ELSE File(<<>>)

\* A faulty variant of with_exit: no with statement, f.close() after the write only.
with_exit_no_with(h, e) == IF e = NoExc THEN NoHandle ELSE h

\* Leaving the with block closes the file, whether or not an exception is in flight.
with_exit(h, e) == NoHandle

SuccessMsg(filename) == <<"Successfully appended content to ", filename, ".">>

WriteErrorMsg(e) == <<"An error occurred while writing to file: ">> \o e.msg

\* What report_writer_tool returns: e is the exception the try block ended with.
report_writer_result(filename, e) ==
    IF e = NoExc THEN Returned(SuccessMsg(filename))
    ELSE IF IsInstance(e.cls, "Exception") THEN Returned(WriteErrorMsg(e))
    ELSE Raised(e)

\* -------------------------------------------------------------- state
\* The threads of the agent runtime that call tools.
MainThread == "t1"
Procs == {"t1", "t2"}

VARIABLES
    linesep,       \* os.linesep of the platform
    atomicAppend,  \* whether the OS appends the data of one write as a whole
    fs,            \* the file system: file name -> file
    handle,        \* per thread: the file its open handle is on, or NoHandle
    pc,            \* per thread: where its call stands
    tool,          \* per thread: the tool called
    query,         \* per thread: wikipedia_tool's and arxiv_tool's argument
    content,       \* per thread: report_writer_tool's arguments
    filename,
    results,       \* per thread: arxiv_tool's list
    yielded,       \* per thread: the records client.results has yielded (history)
    buf,           \* per thread: the encoded text its file object still buffers
    exc,           \* per thread: the exception in flight
    io,            \* per thread: which of open, write, close succeeded (history)
    ret,           \* per thread: how the call ended
    log,           \* the report_writer_tool calls made, in call order (history)
    ncalls         \* calls made

envVars == <<linesep, atomicAppend>>
argVars == <<tool, query, content, filename>>
arxivVars == <<results, yielded>>
fileVars == <<fs, handle, buf, io>>
vars == <<linesep, atomicAppend, fs, handle, pc, tool, query, content, filename,
          results, yielded, buf, exc, io, ret, log, ncalls>>

\* Each of open, write, close: "no" (not reached), "ok" or "failed"; mine: the
\* call's place in log.
NoIo == [opened |-> "no", wrote |-> "no", closed |-> "no", mine |-> 0]

Init ==
    /\ linesep \in LineSeps
    /\ atomicAppend \in BOOLEAN
    /\ fs = [f \in FileNames |-> NoFile]
    /\ handle = [p \in Procs |-> NoHandle]
    /\ pc = [p \in Procs |-> "idle"]
    /\ tool = [p \in Procs |-> "none"]
    /\ query = [p \in Procs |-> <<>>]
    /\ content = [p \in Procs |-> <<>>]
    /\ filename = [p \in Procs |-> "r.txt"]
    /\ results = [p \in Procs |-> <<>>]
    /\ yielded = [p \in Procs |-> <<>>]
    /\ buf = [p \in Procs |-> <<>>]
    /\ exc = [p \in Procs |-> NoExc]
    /\ io = [p \in Procs |-> NoIo]
    /\ ret = [p \in Procs |-> NoResult]
    /\ log = <<>>
    /\ ncalls = 0

\* ------------------------------------------------------------ actions
\* The runtime calls wikipedia_tool(q).
CallWikipedia(p, q) ==
    /\ pc[p] = "idle"
    /\ ncalls < MaxCalls
    /\ pc' = [pc EXCEPT ![p] = "summary"]
    /\ tool' = [tool EXCEPT ![p] = "wikipedia_tool"]
    /\ query' = [query EXCEPT ![p] = q]
    /\ ncalls' = ncalls + 1
    /\ UNCHANGED <<envVars, fileVars, arxivVars, content, filename, exc, ret, log>>

\* wikipedia.summary(query) ends, and with it the call.
WikiSummary(p) ==
    /\ pc[p] = "summary"
    /\ \E out \in WikiOutcomes :
         /\ exc' = [exc EXCEPT ![p] = IF out.kind = "raise" THEN out.val ELSE NoExc]
         /\ results' = [results EXCEPT ![p] =
                          IF out.kind = "return" THEN <<out.val>> ELSE <<>>]
         /\ ret' = [ret EXCEPT ![p] = wikipedia_tool(query[p], out)]
    /\ pc' = [pc EXCEPT ![p] = "done"]
    /\ UNCHANGED <<envVars, fileVars, argVars, yielded, log, ncalls>>

\* The runtime calls arxiv_tool(q); results = [].
CallArxiv(p, q) ==
    /\ pc[p] = "idle"
    /\ ncalls < MaxCalls
    /\ pc' = [pc EXCEPT ![p] = "results"]
    /\ tool' = [tool EXCEPT ![p] = "arxiv_tool"]
    /\ query' = [query EXCEPT ![p] = q]
    /\ ncalls' = ncalls + 1
    /\ UNCHANGED <<envVars, fileVars, arxivVars, content, filename, exc, ret, log>>

\* client.results(search) yields one more record (it yields at most
\* search.max_results of them) and the loop body appends it.
ArxivYield(p) ==
    /\ pc[p] = "results"
    /\ Len(yielded[p]) < Search(query[p]).max_results
    /\ \E r \in Papers :
         /\ yielded' = [yielded EXCEPT ![p] = Append(@, r)]
         /\ results' = [results EXCEPT ![p] = arxiv_append(@, r)]
    /\ UNCHANGED <<envVars, fileVars, argVars, pc, exc, ret, log, ncalls>>

\* The iteration ends: the index has no more records, or max_results were yielded.
ArxivStop(p) ==
    /\ pc[p] = "results"
    /\ ret' = [ret EXCEPT ![p] = arxiv_finish(query[p], results[p])]
    /\ pc' = [pc EXCEPT ![p] = "done"]
    /\ UNCHANGED <<envVars, fileVars, argVars, arxivVars, exc, log, ncalls>>

\* The client, the search or the iteration raises.
ArxivRaise(p) ==
    /\ pc[p] = "results"
    /\ \E e \in ArxivExceptions :
         /\ exc' = [exc EXCEPT ![p] = e]
         /\ ret' = [ret EXCEPT ![p] = arxiv_except(query[p], results[p], e)]
    /\ pc' = [pc EXCEPT ![p] = "done"]
    /\ UNCHANGED <<envVars, fileVars, argVars, arxivVars, log, ncalls>>

\* The runtime calls report_writer_tool(c, f).
CallReportWriter(p, c, f) ==
    /\ pc[p] = "idle"
    /\ ncalls < MaxCalls
    /\ pc' = [pc EXCEPT ![p] = "open"]
    /\ tool' = [tool EXCEPT ![p] = "report_writer_tool"]
    /\ content' = [content EXCEPT ![p] = c]
    /\ filename' = [filename EXCEPT ![p] = f]
    /\ log' = Append(log, [proc |-> p, filename |-> f, content |-> c,
                           status |-> "running"])
    /\ io' = [io EXCEPT ![p] = [NoIo EXCEPT !.mine = Len(log) + 1]]
    /\ ncalls' = ncalls + 1
    /\ UNCHANGED <<envVars, fs, handle, buf, arxivVars, query, exc, ret>>

\* The call of thread p ends with exception e (NoExc: with none).
EndReportWriter(p, e) ==
    /\ ret' = [ret EXCEPT ![p] = report_writer_result(filename[p], e)]
    /\ log' = [log EXCEPT ![io[p].mine].status = IF e = NoExc THEN "ok" ELSE "failed"]
    /\ pc' = [pc EXCEPT ![p] = "done"]

\* A faulty variant of Open: the file is locked while a handle is on it.
OpenLocked(p) ==
    /\ pc[p] = "open"
    /\ \A o \in Procs \ {p} : handle[o] # filename[p]
    /\ fs' = [fs EXCEPT ![filename[p]] = OpenAppend(@)]
    /\ handle' = [handle EXCEPT ![p] = filename[p]]
    /\ io' = [io EXCEPT ![p].opened = "ok"]
    /\ pc' = [pc EXCEPT ![p] = "write"]
    /\ UNCHANGED <<envVars, argVars, arxivVars, buf, exc, ret, log, ncalls>>

\* open(filename, 'a', encoding='utf-8') succeeds, whoever else has the file open.
Open(p) ==
    /\ pc[p] = "open"
    /\ fs' = [fs EXCEPT ![filename[p]] = OpenAppend(@)]
    /\ handle' = [handle EXCEPT ![p] = filename[p]]
    /\ io' = [io EXCEPT ![p].opened = "ok"]
    /\ pc' = [pc EXCEPT ![p] = "write"]
    /\ UNCHANGED <<envVars, argVars, arxivVars, buf, exc, ret, log, ncalls>>

\* open(...) raises OSError: no handle, the file system as it was.
OpenFail(p) ==
    /\ pc[p] = "open"
    /\ \E m \in ErrMsgs :
         /\ exc' = [exc EXCEPT ![p] = Exc("OSError", m, <<>>)]
         /\ EndReportWriter(p, Exc("OSError", m, <<>>))
    /\ io' = [io EXCEPT ![p].opened = "failed"]
    /\ UNCHANGED <<envVars, argVars, arxivVars, fs, handle, buf, ncalls>>

\* f.write(content + "\n"): the text is translated and encoded into the file
\* object's buffer, or the codec raises and nothing is buffered.  Either way
\* the with block is left next.
Write(p) ==
    /\ pc[p] = "write"
    /\ IF Encodable(WriteData(content[p]))
         THEN /\ buf' = [buf EXCEPT ![p] = Translate(WriteData(content[p]), linesep)]
              /\ io' = [io EXCEPT ![p].wrote = "ok"]
              /\ exc' = exc
         ELSE /\ exc' = [exc EXCEPT ![p] = Exc("UnicodeEncodeError", <<"u">>, <<>>)]
              /\ io' = [io EXCEPT ![p].wrote = "failed"]
              /\ buf' = buf
    /\ pc' = [pc EXCEPT ![p] = "close"]
    /\ UNCHANGED <<envVars, argVars, arxivVars, fs, handle, ret, log, ncalls>>

\* f.close() flushes the buffer: the data goes to the end of the file (the
\* handle is in append mode), as a whole when the OS appends atomically and
\* otherwise in any number of pieces.
Flush(p) ==
    /\ pc[p] = "close"
    /\ buf[p] # <<>>
    /\ \E k \in 1..Len(buf[p]) :
         /\ atomicAppend => k = Len(buf[p])
         /\ fs' = [fs EXCEPT ![handle[p]].data = @ \o SubSeq(buf[p], 1, k)]
         /\ buf' = [buf EXCEPT ![p] = SubSeq(@, k + 1, Len(@))]
    /\ UNCHANGED <<envVars, argVars, arxivVars, handle, io, pc, exc, ret, log, ncalls>>

\* The flush fails (disk full, I/O error) after part of the data was written.
FlushFail(p) ==
    /\ pc[p] = "close"
    /\ buf[p] # <<>>
    /\ \E k \in 0..(Len(buf[p]) - 1), m \in ErrMsgs :
         /\ fs' = [fs EXCEPT ![handle[p]].data = @ \o SubSeq(buf[p], 1, k)]
         /\ exc' = [exc EXCEPT ![p] = Exc("OSError", m, <<>>)]
    /\ buf' = [buf EXCEPT ![p] = <<>>]
    /\ io' = [io EXCEPT ![p].closed = "failed"]
    /\ UNCHANGED <<envVars, argVars, arxivVars, handle, pc, ret, log, ncalls>>

\* f.close() releases the handle, the with block is left and the call ends
\* with the exception in flight, if any.
Close(p) ==
    /\ pc[p] = "close"
    /\ buf[p] = <<>>
    /\ handle' = [handle EXCEPT ![p] = with_exit(@, exc[p])]
    /\ io' = [io EXCEPT ![p].closed = IF @ = "failed" THEN "failed" ELSE "ok"]
    /\ EndReportWriter(p, exc[p])
    /\ UNCHANGED <<envVars, argVars, arxivVars, fs, buf, exc, ncalls>>

\* Closing the descriptor itself fails: the handle is gone all the same, and
\* the call ends with the OSError.
CloseFail(p) ==
    /\ pc[p] = "close"
    /\ buf[p] = <<>>
    /\ handle' = [handle EXCEPT ![p] = with_exit(@, exc[p])]
    /\ io' = [io EXCEPT ![p].closed = "failed"]
    /\ \E m \in ErrMsgs :
         /\ exc' = [exc EXCEPT ![p] = Exc("OSError", m, <<>>)]
         /\ EndReportWriter(p, Exc("OSError", m, <<>>))
    /\ UNCHANGED <<envVars, argVars, arxivVars, fs, buf, ncalls>>

\* The runtime takes the result; the call's locals are gone.
Finish(p) ==
    /\ pc[p] = "done"
    /\ pc' = [pc EXCEPT ![p] = "idle"]
    /\ tool' = [tool EXCEPT ![p] = "none"]
    /\ query' = [query EXCEPT ![p] = <<>>]
    /\ content' = [content EXCEPT ![p] = <<>>]
    /\ filename' = [filename EXCEPT ![p] = "r.txt"]
    /\ results' = [results EXCEPT ![p] = <<>>]
    /\ yielded' = [yielded EXCEPT ![p] = <<>>]
    /\ exc' = [exc EXCEPT ![p] = NoExc]
    /\ io' = [io EXCEPT ![p] = NoIo]
    /\ ret' = [ret EXCEPT ![p] = NoResult]
    /\ UNCHANGED <<envVars, fs, handle, buf, log, ncalls>>

\* One thread calls the tools, one call after the other.
Next ==
    \/ \E q \in Queries : CallWikipedia(MainThread, q)
    \/ \E q \in Queries : CallArxiv(MainThread, q)
    \/ \E c \in Contents, f \in FileNames : CallReportWriter(MainThread, c, f)
    \/ WikiSummary(MainThread)
    \/ ArxivYield(MainThread)
    \/ ArxivStop(MainThread)
    \/ ArxivRaise(MainThread)
    \/ Open(MainThread)
    \/ OpenFail(MainThread)
    \/ Write(MainThread)
    \/ Flush(MainThread)
    \/ FlushFail(MainThread)
    \/ Close(MainThread)
    \/ CloseFail(MainThread)
    \/ Finish(MainThread)

Spec == Init /\ [][Next]_vars

\* Several threads call report_writer_tool at the same time, on a system
\* without I/O faults: whatever the file then holds, the interleaving made it.
NextConc ==
    \E p \in Procs :
        \/ \E c \in Contents, f \in FileNames : CallReportWriter(p, c, f)
        \/ Open(p)
        \/ Write(p)
        \/ Flush(p)
        \/ Close(p)
        \/ Finish(p)

SpecConc == Init /\ [][NextConc]_vars

\* ------------------------------------------------------------- claims
Done(p, t) == pc[p] = "done" /\ tool[p] = t

\* A Python str: a sequence of pieces.
IsStr(v) == DOMAIN v = 1..Len(v) /\ \A i \in 1..Len(v) : v[i] \in STRING

\* C1: whatever the underlying operation does (a result, an ambiguity error, a
\* page-not-found error, any other exception of the service, of the search
\* iteration or of file I/O), a call of wikipedia_tool, arxiv_tool or
\* report_writer_tool ends by returning a string, never by raising.
C1_NeverRaises ==
    \A p \in Procs :
        /\ pc[p] = "done" =>
             /\ tool[p] \in {"wikipedia_tool", "arxiv_tool", "report_writer_tool"}
             /\ ret[p].kind = "return"
             /\ IsStr(ret[p].val)
        /\ ret[p].kind # "raise"

\* A report_writer_tool call has failed earlier, and now the encyclopedia
\* service has raised an exception that is neither of the two named ones.
C1_Witness ==
    /\ Done(MainThread, "wikipedia_tool")
    /\ exc[MainThread].cls = "HTTPTimeoutError"
    /\ ret[MainThread].kind = "return"
    /\ \E i \in 1..Len(log) : log[i].status = "failed"

\* C2: a report file is append-only: in every step, a file that exists still
\* exists afterwards and what it held is a prefix of what it holds.
C2_AppendOnly ==
    [][\A f \in FileNames :
         fs[f].exists => /\ fs'[f].exists
                         /\ IsPrefix(fs[f].data, fs'[f].data)]_vars

\* Two calls on one file are over, the first failed after writing a part of its
\* data, the second succeeded, and the file holds both.
C2_Witness ==
    /\ Len(log) = 2
    /\ log[1].filename = log[2].filename
    /\ log[1].status = "failed"
    /\ log[2].status = "ok"
    /\ Len(fs[log[1].filename].data)
         > Len(Translate(log[2].content \o <<NL>>, linesep))

\* The places in log of the calls on file f.
CallsOn(f) == {i \in 1..Len(log) : log[i].filename = f}

RECURSIVE Accumulated(_, _, _)
\* c1 + "\n" + ... + cn + "\n" for the calls on f among the first n of log,
\* each "\n" written as sep.
Accumulated(f, n, sep) ==
    IF n = 0 THEN <<>>
    ELSE Accumulated(f, n - 1, sep)
           \o (IF log[n].filename = f
                 THEN Translate(log[n].content \o <<NL>>, sep) ELSE <<>>)

\* The calls so far on f were all successful, and there was one.
OnlySuccessfulCalls(f) ==
    /\ CallsOn(f) # {}
    /\ \A i \in CallsOn(f) : log[i].status = "ok"

\* C3 as stated: after successful calls with contents c1..cn on a file that was
\* absent, the file holds exactly c1 + "\n" + ... + cn + "\n".
C3_Original ==
    \A f \in FileNames :
        OnlySuccessfulCalls(f) =>
            fs[f] = File(Accumulated(f, Len(log), <<NL>>))

\* C3 as amended: the file holds the contents in call order, each followed by a
\* line break, with every line break written as the platform's os.linesep;
\* where os.linesep is "\n" that is c1 + "\n" + ... + cn + "\n" itself.
C3_Accumulation ==
    \A f \in FileNames :
        OnlySuccessfulCalls(f) =>
            /\ fs[f] = File(Accumulated(f, Len(log), linesep))
            /\ linesep = <<NL>> => fs[f] = File(Accumulated(f, Len(log), <<NL>>))

\* Two successful calls with different contents on the same file.
C3_Witness ==
    /\ Len(log) = 2
    /\ log[1].filename = log[2].filename
    /\ log[1].content # log[2].content
    /\ log[1].status = "ok"
    /\ log[2].status = "ok"
    /\ pc[MainThread] = "done"

\* C4: when the lookup raises PageError, wikipedia_tool returns exactly
\* "Sorry, I could not find a Wikipedia page for '<query>'.", and neither the
\* ambiguity message nor the generic error message.
C4_NotFound ==
    \A p \in Procs :
        (Done(p, "wikipedia_tool") /\ exc[p].cls = "PageError") =>
            /\ ret[p] = Returned(<<"Sorry, I could not find a Wikipedia page for '">>
                                   \o query[p] \o <<"'.">>)
            /\ ret[p].val[1] # "The query '"
            /\ ret[p].val[1] # "An unexpected error occurred while searching Wikipedia: "

\* The lookup of a non-empty query has raised PageError.
C4_Witness ==
    /\ Done(MainThread, "wikipedia_tool")
    /\ exc[MainThread].cls = "PageError"
    /\ query[MainThread] # <<>>

\* C5: when the lookup raises DisambiguationError with n candidates,
\* wikipedia_tool returns the ambiguity message with the literal query and the
\* first min(3, n) candidates in the service's order: at most 3.
C5_Ambiguity ==
    \A p \in Procs :
        (Done(p, "wikipedia_tool") /\ exc[p].cls = "DisambiguationError") =>
            LET n == Len(exc[p].options)
                shown == [i \in 1..Min(3, n) |-> exc[p].options[i]]
            IN  /\ ret[p] = Returned(AmbiguousMsg(query[p], shown))
                /\ IsInfix(query[p], ret[p].val)
                \* each candidate listed stands between two quotes
                /\ Occurrences(<<"'">>, ret[p].val) = 2 * Min(3, n)
                /\ Occurrences(<<"'">>, ret[p].val) <= 2 * 3

\* The service has named more than 3 candidates, not all the same.
C5_Witness ==
    /\ Done(MainThread, "wikipedia_tool")
    /\ exc[MainThread].cls = "DisambiguationError"
    /\ Len(exc[MainThread].options) > 3
    /\ exc[MainThread].options[1] # exc[MainThread].options[2]

\* Line breaks in a text.
Breaks(t) == Cardinality({i \in 1..Len(t) : t[i] = NL})

\* A successful search that found something.
Found(p) == Done(p, "arxiv_tool") /\ exc[p] = NoExc /\ yielded[p] # <<>>

\* What arxiv_tool returned is its records, in the order yielded, with the
\* separator between two of them and nowhere else.
RecordsJoined(p) ==
    /\ Len(results[p]) = Len(yielded[p])
    /\ Len(results[p]) <= 2
    /\ \A i \in 1..Len(results[p]) :
         results[p][i] = <<"Title: ">> \o yielded[p][i].title
                           \o <<NL, "Summary: ">> \o yielded[p][i].summary
                           \o <<NL, "URL: ">> \o yielded[p][i].entry_id
    /\ ret[p].kind = "return"
    /\ Len(results[p]) = 1 => ret[p].val = results[p][1]
    /\ Len(results[p]) = 2 =>
         ret[p].val = results[p][1] \o <<NL, "---", NL>> \o results[p][2]
    /\ Occurrences(<<NL, "---", NL>>, ret[p].val) = Len(results[p]) - 1

\* C6 as stated: a successful search returns at most 2 records, each of three
\* lines with non-empty title, summary and identifier, in the order yielded,
\* joined by "\n---\n" exactly when there are 2.
C6_Original ==
    \A p \in Procs :
        Found(p) =>
            /\ RecordsJoined(p)
            /\ \A i \in 1..Len(results[p]) :
                 /\ Lines(results[p][i]) = 3
                 /\ yielded[p][i].title # <<>>
                 /\ yielded[p][i].summary # <<>>
                 /\ yielded[p][i].entry_id # <<>>

\* C6 as amended: at most 2 records, in the order yielded, joined by "\n---\n"
\* exactly when there are 2; each record is "Title: ", "\nSummary: ", "\nURL: "
\* with the service's title, summary and identifier as they came, so it has
\* three lines and non-empty fields exactly when the service's fields have no
\* line break and are non-empty.
C6_Records ==
    \A p \in Procs :
        Found(p) =>
            /\ RecordsJoined(p)
            /\ \A i \in 1..Len(results[p]) :
                 LET r == yielded[p][i]
                 IN  /\ Lines(results[p][i])
                          = 3 + Breaks(r.title) + Breaks(r.summary) + Breaks(r.entry_id)
                     /\ IsInfix(<<"Title: ">> \o r.title \o <<NL>>, ret[p].val)
                     /\ IsInfix(<<"Summary: ">> \o r.summary \o <<NL>>, ret[p].val)
                     /\ IsInfix(<<"URL: ">> \o r.entry_id, ret[p].val)

\* The search has yielded two different records and ended.
C6_Witness ==
    /\ Found(MainThread)
    /\ Len(yielded[MainThread]) = 2
    /\ yielded[MainThread][1] # yielded[MainThread][2]

\* C7: a search that ends without error and without a result returns a string
\* with "No academic papers found" and the literal query in it, never the
\* empty string and never the generic error string.
C7_NoResults ==
    \A p \in Procs :
        (Done(p, "arxiv_tool") /\ exc[p] = NoExc /\ yielded[p] = <<>>) =>
            /\ ret[p].kind = "return"
            /\ ret[p].val # <<>>
            /\ IsInfix(<<"No academic papers found">>, ret[p].val)
            /\ IsInfix(query[p], ret[p].val)
            /\ ~IsInfix(<<"An unexpected error occurred while searching arXiv: ">>,
                        ret[p].val)

\* The search for a non-empty query has ended without a result.
C7_Witness ==
    /\ Done(MainThread, "arxiv_tool")
    /\ exc[MainThread] = NoExc
    /\ yielded[MainThread] = <<>>
    /\ query[MainThread] # <<>>

AllOk(p) == io[p].opened = "ok" /\ io[p].wrote = "ok" /\ io[p].closed = "ok"

\* C8: no handle stays open once a call has returned, on any path; the call
\* returns the confirmation naming the file only when open, write and close
\* all succeeded, and the generic error string whenever one of them failed.
C8_HandleReleased ==
    \A p \in Procs :
        /\ pc[p] \in {"done", "idle"} => handle[p] = NoHandle
        /\ Done(p, "report_writer_tool") =>
             /\ AllOk(p) <=>
                  ret[p] = Returned(<<"Successfully appended content to ",
                                      filename[p], ".">>)
             /\ ~AllOk(p) =>
                  ret[p] = Returned(<<"An error occurred while writing to file: ">>
                                      \o exc[p].msg)

\* The write failed after the file was opened, and the call has returned.
C8_Witness ==
    /\ Done(MainThread, "report_writer_tool")
    /\ io[MainThread].opened = "ok"
    /\ io[MainThread].wrote = "failed"
    /\ handle[MainThread] = NoHandle

RECURSIVE WholeUnits(_, _)
\* Whether text is the data of some of the calls in S, one whole call after
\* the other.
WholeUnits(text, S) ==
    \/ text = <<>>
    \/ \E i \in S :
         LET unit == Translate(log[i].content \o <<NL>>, linesep)
         IN  /\ IsPrefix(unit, text)
             /\ WholeUnits(SubSeq(text, Len(unit) + 1, Len(text)), S \ {i})

\* No call on f is under way, and f does not hold whole content + "\n" units.
Torn(f) ==
    /\ \A i \in CallsOn(f) : log[i].status # "running"
    /\ fs[f].exists
    /\ ~WholeUnits(fs[f].data, CallsOn(f))

\* C9: report_writer_tool takes no lock: a call can always open the file,
\* whoever holds a handle on it; and where the file ends up torn (which the
\* witness shows to happen), the OS did not append atomically and more than
\* one call wrote to the file.
C9_NoLock ==
    /\ \A p \in Procs : pc[p] = "open" => ENABLED Open(p)
    /\ \A f \in FileNames :
         Torn(f) =>
             /\ ~atomicAppend
             /\ Cardinality({i \in CallsOn(f) : log[i].status = "ok"}) >= 2

\* Two calls on one file have both returned their confirmation, and the file
\* is torn.
C9_Witness ==
    \E f \in FileNames :
        /\ Torn(f)
        /\ Len(log) = 2
        /\ log[1].proc # log[2].proc
        /\ \A i \in 1..2 : log[i].filename = f /\ log[i].status = "ok"

\* C10: when the search raises, also after records were fetched, arxiv_tool
\* returns the generic error string alone: none of the records is in it.
C10_OnlyError ==
    \A p \in Procs :
        (Done(p, "arxiv_tool") /\ exc[p] # NoExc) =>
            /\ ret[p] = Returned(<<"An unexpected error occurred while searching arXiv: ">>
                                   \o exc[p].msg)
            /\ \A i \in 1..Len(results[p]) : ~IsInfix(results[p][i], ret[p].val)
            /\ ~IsInfix(<<"Title: ">>, ret[p].val)

\* The search raised after one record had been fetched and formatted.
C10_Witness ==
    /\ Done(MainThread, "arxiv_tool")
    /\ exc[MainThread] # NoExc
    /\ Len(results[MainThread]) = 1

=============================================================================
